---- MODULE Spec2Model ----
(***************************************************************************)
(* A model of ebooklib/utils.py: the lazy mimetype setup of guess_type and *)
(* the page extraction of get_headers, get_pages and get_pages_for_items.  *)
(*                                                                         *)
(* Strings are sequences of one-character strings, so that str.strip() is  *)
(* computed and not assumed.  Python's None is the value None below.  An   *)
(* element is a record [tag, attrib, text, tail, children] as lxml exposes *)
(* it: attrib is a function whose DOMAIN is the set of attributes present, *)
(* text is the text before the first child, tail the text after the        *)
(* element's end tag, children the child elements in document order.       *)
(***************************************************************************)
EXTENDS Integers, Sequences, FiniteSets, TLC

VARIABLES
    doc,                    \* the content item under study (chosen by Init)
    mimetype_initialised,   \* utils.py:32, the module-level flag
    types_map,              \* the mimetypes database: extension -> type
    setups,                 \* history: how often mimetypes.init() has run
    guess_calls,            \* history: how many calls of guess_type have started
    pc,                     \* position of the (single) thread of control
    caller,                 \* who called get_pages: "top" or "batch"
    item,                   \* get_pages: its argument
    body,                   \* get_pages: the parsed tree
    todo,                   \* get_pages: what body.iter() has still to yield
    pages,                  \* get_pages: the list being built
    emitted,                \* history: the path of the element behind each record
    items,                  \* get_pages_for_items: its argument
    idx,                    \* get_pages_for_items: position of the comprehension
    pages_from_docs,        \* get_pages_for_items: the list of lists
    calls,                  \* history: the items get_pages was called on by the batch
    ext,                    \* guess_type: its argument
    outcome,                \* how the last top-level call ended
    first                   \* history: what the first get_pages(doc) returned,
                            \* and the flag's value at that time

vars == <<doc, mimetype_initialised, types_map, setups, guess_calls, pc, caller, item, body,
          todo, pages, emitted, items, idx, pages_from_docs, calls, ext,
          outcome, first>>

(***************************************************************************)
(* Bounds of the model.                                                    *)
(***************************************************************************)
MaxKids == 2        \* child elements enumerated under one element
MaxItems == 2       \* length of the list given to get_pages_for_items
MaxGuessCalls == 2  \* calls of guess_type in one run

(***************************************************************************)
(* Strings.                                                                *)
(***************************************************************************)
None == <<"None">>
Whitespace == {" ", "\n"}

RECURSIVE lstrip(_)
lstrip(s) ==
    IF s # <<>> /\ Head(s) \in Whitespace THEN lstrip(Tail(s)) ELSE s

RECURSIVE rstrip(_)
rstrip(s) ==
    IF s # <<>> /\ s[Len(s)] \in Whitespace
    THEN rstrip(SubSeq(s, 1, Len(s) - 1))
    ELSE s

\* str.strip()
strip(s) == rstrip(lstrip(s))

\* the text of an optional string: None counts as ""
OrEmpty(s) == IF s = None THEN <<>> ELSE s

(***************************************************************************)
(* Elements.                                                               *)
(***************************************************************************)
Element(tag, attrib, text, tail, children) ==
    [tag |-> tag, attrib |-> attrib, text |-> text, tail |-> tail,
     children |-> children]

\* elem.get(name): the attribute's value, None when it is absent
get(elem, name) ==
    IF name \in DOMAIN elem.attrib THEN elem.attrib[name] ELSE None

\* an attribute mapping from optional values: None means "not written"
attrs(epubtype, type, id, aria) ==
    LET vals == ("epub:type" :> epubtype) @@ ("type" :> type) @@
                ("id" :> id) @@ ("aria-label" :> aria)
    IN  [k \in {a \in DOMAIN vals : vals[a] # None} |-> vals[k]]

NoAttrs == attrs(None, None, None, None)

\* elem.text_content(): the text of the element and of all its descendants,
\* in document order (the element's own tail is not part of it)
RECURSIVE text_content(_)
RECURSIVE kids_content(_)
kids_content(kids) ==
    IF kids = <<>> THEN <<>>
    ELSE text_content(Head(kids)) \o OrEmpty(Head(kids).tail)
         \o kids_content(Tail(kids))
text_content(elem) == OrEmpty(elem.text) \o kids_content(elem.children)

\* elem.xpath("./" + tag): the direct children with that tag, in order
xpath_child(elem, tag) ==
    SelectSeq(elem.children, LAMBDA c : c.tag = tag)

HeadingTag == <<"h1", "h2", "h3", "h4", "h5", "h6">>


(***************************************************************************)
(* get_headers (utils.py:97-105).                                          *)
(***************************************************************************)
\* a faulty get_headers_from: the last heading of a level, not the first
RECURSIVE get_headers_from_last(_, _)
get_headers_from_last(elem, n) ==
    IF n > Len(HeadingTag) THEN None
    ELSE LET headers == xpath_child(elem, HeadingTag[n])
             text == IF Len(headers) > 0
                     THEN strip(text_content(headers[Len(headers)]))
                     ELSE <<>>
         IN  IF Len(headers) > 0 /\ Len(text) > 0
             THEN text
             ELSE get_headers_from_last(elem, n + 1)

\* the loop "for n in range(1, 7)" from level n on
RECURSIVE get_headers_from(_, _)
get_headers_from(elem, n) ==
    IF n > Len(HeadingTag) THEN None
    ELSE LET headers == xpath_child(elem, HeadingTag[n])
             text == IF Len(headers) > 0
                     THEN strip(text_content(headers[1]))
                     ELSE <<>>
         IN  IF Len(headers) > 0 /\ Len(text) > 0
             THEN text
             ELSE get_headers_from(elem, n + 1)

get_headers(elem) == get_headers_from(elem, 1)

(***************************************************************************)
(* get_pages (utils.py:108-131): the pieces of its loop body.              *)
(***************************************************************************)
\* a faulty qualifies: one that reads the flag guess_type keeps
qualifies_once_initialised(elem) ==
    /\ mimetype_initialised
    /\ "epub:type" \in DOMAIN elem.attrib
    /\ get(elem, "id") # None

\* line 113: the test that makes an element a landmark
qualifies(elem) ==
    "epub:type" \in DOMAIN elem.attrib /\ get(elem, "id") # None

\* Python's truth value of an optional string
Truthy(s) == s # None /\ s # <<>>

\* a faulty label: aria-label is looked at before the text
label_aria_first(elem) ==
    LET t0 == get(elem, "aria-label")
        t1 == IF t0 = None /\ elem.text # None /\ strip(elem.text) # <<>>
              THEN strip(elem.text)
              ELSE t0
        t2 == IF t1 = None THEN get_headers(elem) ELSE t1
    IN  IF Truthy(t2) THEN t2 ELSE get(elem, "id")

\* lines 114-128: the label of a landmark
label(elem) ==
    LET t0 == IF elem.text # None /\ strip(elem.text) # <<>>
              THEN strip(elem.text)
              ELSE None
        t1 == IF t0 = None THEN get(elem, "aria-label") ELSE t0
        t2 == IF t1 = None THEN get_headers(elem) ELSE t1
    IN  IF Truthy(t2) THEN t2 ELSE get(elem, "id")

\* lines 125-129: the tuple appended for a landmark
PageRecord(it, elem) == <<it.name, get(elem, "id"), label(elem)>>

\* the element of a tree at a path (a sequence of child positions)
RECURSIVE At(_, _)
At(tree, path) ==
    IF path = <<>> THEN tree
    ELSE At(tree.children[Head(path)], Tail(path))

\* a faulty iter_rest: the children wait until the rest has been yielded
iter_rest_breadth(tree, pending) ==
    LET here == Head(pending)
        n == Len(At(tree, here).children)
    IN  Tail(pending) \o [i \in 1..n |-> Append(here, i)]

\* body.iter(): what is left to yield once the head of pending has been
\* yielded: its children, then the rest (document order)
iter_rest(tree, pending) ==
    LET here == Head(pending)
        n == Len(At(tree, here).children)
    IN  [i \in 1..n |-> Append(here, i)] \o Tail(pending)

\* item.get_body_content(): markup, here the elements it is read as, ...
Markup(elems) == [available |-> TRUE, elems |-> elems]
\* ... or nothing, for an item whose body cannot be produced
Unavailable == [available |-> FALSE, elems |-> <<>>]
\* what parse_html_string yields when it raises
Raised == Element("#raised", <<>>, None, None, <<>>)

\* a faulty parse_html_string: no content is read as an empty body
parse_html_string_lenient(content) ==
    Element("html", NoAttrs, None, None,
            <<Element("body", NoAttrs, None, None, content.elems)>>)

\* parse_html_string (utils.py:54-59): html.document_fromstring wraps the
\* content in html > body; without content it raises
parse_html_string(content) ==
    IF content = Unavailable THEN Raised
    ELSE Element("html", NoAttrs, None, None,
                 <<Element("body", NoAttrs, None, None, content.elems)>>)

(***************************************************************************)
(* get_pages_for_items (utils.py:134-137).                                 *)
(***************************************************************************)
\* a faulty flatten: the lists are taken last to first
RECURSIVE flatten_reversed(_)
flatten_reversed(lists) ==
    IF lists = <<>> THEN <<>>
    ELSE flatten_reversed(Tail(lists)) \o Head(lists)

\* line 137: [item for pages in pages_from_docs for item in pages]
RECURSIVE flatten(_)
flatten(lists) ==
    IF lists = <<>> THEN <<>> ELSE Head(lists) \o flatten(Tail(lists))

(***************************************************************************)
(* guess_type (utils.py:62-70): the mimetypes database.                    *)
(***************************************************************************)
DefaultTypes == (".html" :> "text/html") @@ (".css" :> "text/css")

\* mimetypes.add_type(type, ext)
add_type(map, type, e) == (e :> type) @@ map

\* the extension mimetypes.guess_type looks up for a file name
Suffix == ("book.xhtml" :> ".xhtml") @@ ("book.html" :> ".html") @@
          ("book.bin" :> ".bin")

\* mimetypes.guess_type(name): (type, encoding)
lookup(map, name) ==
    IF Suffix[name] \in DOMAIN map THEN <<map[Suffix[name]], "None">>
    ELSE <<"None", "None">>

(***************************************************************************)
(* The inputs: body markup of content items.                               *)
(***************************************************************************)
\* all sequences over S of length lo..hi
SeqsOf(S, lo, hi) == UNION {[1..n -> S] : n \in lo..hi}

EpubTypes == {None, <<>>, <<"c">>}
PlainTypes == {None, <<"t">>}
Ids == {None, <<>>, <<"i">>}
Arias == {None, <<>>, <<" ">>, <<"l">>, <<" ", "l", " ">>}
Texts == {None, <<" ">>, <<"\n", "t", " ">>}

H1Blank == Element("h1", NoAttrs, <<" ">>, None, <<>>)
H1A == Element("h1", NoAttrs, <<" ">>, None,
               <<Element("em", NoAttrs, <<"A">>, <<" ">>, <<>>)>>)
H6F == Element("h6", NoAttrs, <<"F", "\n">>, <<"x">>, <<>>)
SpanH1D == Element("span", NoAttrs, None, None,
                   <<Element("h1", NoAttrs, <<"D">>, None, <<>>)>>)
HeadingKinds == {H1Blank, H1A, H6F, SpanH1D}

\* one element, every combination of epub:type, type and id
QualBodies ==
    {<<Element("div", attrs(e, t, i, None), None, None, <<>>)>> :
        e \in EpubTypes, t \in PlainTypes, i \in Ids}

\* one landmark, every combination of text, aria-label and a heading
LabelBodies ==
    {<<Element("div", attrs(<<"c">>, None, <<"i">>, a), x, None, k)>> :
        a \in Arias, x \in Texts, k \in {<<>>, <<H1A>>, <<SpanH1D>>}}

\* one landmark without text or aria-label over every run of headings
HeaderBodies ==
    {<<Element("div", attrs(<<"c">>, None, <<"i">>, None), None, None, k)>> :
        k \in SeqsOf(HeadingKinds, 0, MaxKids)}

\* landmarks and other elements side by side and nested
LeafKinds ==
    {Element("span", attrs(<<"c">>, None, <<"n">>, None), <<"p">>, None, <<>>)}
NestKinds ==
    {Element("section", a, None, None, k) :
        a \in {attrs(<<"c">>, None, <<"s">>, None), NoAttrs},
        k \in SeqsOf(LeafKinds, 0, 1)}
StructBodies == SeqsOf(NestKinds, 1, MaxKids)

Bodies == QualBodies \cup LabelBodies \cup HeaderBodies \cup StructBodies

ItemNames == {"item1.xhtml", "item2.xhtml"}
ContentItem(name, content) == [name |-> name, content |-> content]

DocItems == {ContentItem("item1.xhtml", Markup(c)) : c \in Bodies}
OtherItems ==
    {ContentItem("item2.xhtml", Markup(
        <<Element("p", attrs(<<"c">>, None, <<"i">>, None), <<"o">>, None, <<>>)>>)),
     ContentItem("item3.xhtml", Unavailable)}
BatchItems ==
    {ContentItem(n, c) :
        n \in ItemNames,
        c \in {Unavailable} \cup {Markup(<<e>>) : e \in NestKinds}}

(***************************************************************************)
(* The state machine.  One thread of control: a top-level call starts when *)
(* pc = "idle" and runs to its end before the next one starts.             *)
(***************************************************************************)
NoOutcome == [op |-> "none", kind |-> "none", arg |-> None, value |-> None]
NoTree == Element("none", NoAttrs, None, None, <<>>)
NotYet == [set |-> FALSE, value |-> <<>>, flag |-> FALSE]

\* every path of a tree
RECURSIVE Paths(_)
Paths(tree) ==
    {<<>>} \cup
    UNION {{<<i>> \o p : p \in Paths(tree.children[i])} :
              i \in 1..Len(tree.children)}

Start(d) ==
    /\ doc = d
    /\ mimetype_initialised = FALSE
    /\ types_map = DefaultTypes
    /\ setups = 0
    /\ guess_calls = 0
    /\ pc = "idle"
    /\ caller = "top"
    /\ item = d
    /\ body = NoTree
    /\ todo = <<>>
    /\ pages = <<>>
    /\ emitted = <<>>
    /\ items = <<>>
    /\ idx = 1
    /\ pages_from_docs = <<>>
    /\ calls = <<>>
    /\ ext = "book.html"
    /\ outcome = NoOutcome
    /\ first = NotYet

Init == \E d \in DocItems : Start(d)

globals == <<mimetype_initialised, types_map, setups>>
history == <<guess_calls, first>>
frame == <<item, body, todo, pages, emitted>>
batch == <<items, idx, pages_from_docs, calls>>

\* a call of get_pages(it) from the top level
CallGetPages ==
    /\ pc = "idle"
    /\ \E it \in {doc} \cup OtherItems :
        /\ item' = it
        /\ caller' = "top"
        /\ body' = NoTree
        /\ todo' = <<>>
        /\ pages' = <<>>
        /\ emitted' = <<>>
    /\ pc' = "gp_parse"
    /\ outcome' = NoOutcome
    /\ UNCHANGED <<doc, globals, batch, ext, history>>

\* lines 109-110; an exception of line 109 leaves get_pages and, there being
\* no handler in get_pages_for_items either, its caller
GetPagesParse ==
    /\ pc = "gp_parse"
    /\ LET tree == parse_html_string(item.content)
       IN  IF tree = Raised
           THEN /\ pc' = "idle"
                /\ outcome' =
                     IF caller = "batch"
                     THEN [op |-> "get_pages_for_items", kind |-> "raise",
                           arg |-> items, value |-> None]
                     ELSE [op |-> "get_pages", kind |-> "raise",
                           arg |-> item, value |-> None]
                /\ UNCHANGED <<body, todo, pages>>
           ELSE /\ body' = tree
                /\ todo' = <<<<>>>>
                /\ pages' = <<>>
                /\ pc' = "gp_iter"
                /\ UNCHANGED outcome
    /\ UNCHANGED <<doc, globals, caller, item, emitted, batch, ext, history>>

\* lines 112-129: one iteration of "for elem in body.iter()"
GetPagesIter ==
    /\ pc = "gp_iter"
    /\ todo # <<>>
    /\ LET elem == At(body, Head(todo))
       IN  IF qualifies(elem)
           THEN /\ pages' = Append(pages, PageRecord(item, elem))
                /\ emitted' = Append(emitted, Head(todo))
           ELSE UNCHANGED <<pages, emitted>>
    /\ todo' = iter_rest(body, todo)
    /\ UNCHANGED <<doc, globals, pc, caller, item, body, batch, ext, outcome,
                   history>>

\* line 131, and for the batch the list comprehension of line 135 taking
\* the value
GetPagesReturn ==
    /\ pc = "gp_iter"
    /\ todo = <<>>
    /\ IF caller = "batch"
       THEN /\ pages_from_docs' = Append(pages_from_docs, pages)
            /\ idx' = idx + 1
            /\ pc' = "gpfi_loop"
            /\ UNCHANGED <<outcome, first>>
       ELSE /\ outcome' = [op |-> "get_pages", kind |-> "return",
                           arg |-> item, value |-> pages]
            /\ first' = IF item = doc /\ ~first.set
                        THEN [set |-> TRUE, value |-> pages,
                              flag |-> mimetype_initialised]
                        ELSE first
            /\ pc' = "idle"
            /\ UNCHANGED <<pages_from_docs, idx>>
    /\ UNCHANGED <<doc, globals, guess_calls, caller, frame, items, calls, ext>>

\* a call of get_headers on an element of the document
CallGetHeaders ==
    /\ pc = "idle"
    /\ parse_html_string(doc.content) # Raised
    /\ \E p \in Paths(parse_html_string(doc.content)) :
        LET elem == At(parse_html_string(doc.content), p)
        IN  outcome' = [op |-> "get_headers", kind |-> "return",
                        arg |-> elem, value |-> get_headers(elem)]
    /\ UNCHANGED <<doc, globals, pc, caller, frame, batch, ext, history>>

\* a call of guess_type(name)
CallGuessType ==
    /\ pc = "idle"
    /\ guess_calls < MaxGuessCalls
    /\ \E name \in DOMAIN Suffix : ext' = name
    /\ guess_calls' = guess_calls + 1
    /\ pc' = "gt_test"
    /\ outcome' = NoOutcome
    /\ UNCHANGED <<doc, globals, caller, frame, batch, first>>

\* line 65
GuessTypeTest ==
    /\ pc = "gt_test"
    /\ pc' = IF ~mimetype_initialised THEN "gt_init" ELSE "gt_lookup"
    /\ UNCHANGED <<doc, globals, caller, frame, batch, ext, outcome, history>>

\* line 66: mimetypes.init() builds the database afresh
GuessTypeInit ==
    /\ pc = "gt_init"
    /\ types_map' = DefaultTypes
    /\ setups' = setups + 1
    /\ pc' = "gt_add"
    /\ UNCHANGED <<doc, mimetype_initialised, caller, frame, batch, ext,
                   outcome, history>>

\* line 67
GuessTypeAdd ==
    /\ pc = "gt_add"
    /\ types_map' = add_type(types_map, "application/xhtml+xml", ".xhtml")
    /\ pc' = "gt_flag"
    /\ UNCHANGED <<doc, mimetype_initialised, setups, caller, frame, batch,
                   ext, outcome, history>>

\* a faulty line 68: the flag is left as it was
GuessTypeFlag_unset ==
    /\ pc = "gt_flag"
    /\ pc' = "gt_lookup"
    /\ UNCHANGED <<doc, globals, caller, frame, batch, ext, outcome, history>>

\* line 68
GuessTypeFlag ==
    /\ pc = "gt_flag"
    /\ mimetype_initialised' = TRUE
    /\ pc' = "gt_lookup"
    /\ UNCHANGED <<doc, types_map, setups, caller, frame, batch, ext, outcome,
                   history>>

\* line 70
GuessTypeReturn ==
    /\ pc = "gt_lookup"
    /\ outcome' = [op |-> "guess_type", kind |-> "return", arg |-> ext,
                   value |-> lookup(types_map, ext)]
    /\ pc' = "idle"
    /\ UNCHANGED <<doc, globals, caller, frame, batch, ext, history>>

Next ==
    \/ CallGetPages
    \/ GetPagesParse
    \/ GetPagesIter
    \/ GetPagesReturn
    \/ CallGetHeaders
    \/ CallGuessType
    \/ GuessTypeTest
    \/ GuessTypeInit
    \/ GuessTypeAdd
    \/ GuessTypeFlag
    \/ GuessTypeReturn

Spec == Init /\ [][Next]_vars

(***************************************************************************)
(* The batch: get_pages_for_items over lists of items.                     *)
(***************************************************************************)
\* a call of get_pages_for_items(list)
CallGetPagesForItems ==
    /\ pc = "idle"
    /\ \E list \in SeqsOf(BatchItems, 0, MaxItems) : items' = list
    /\ idx' = 1
    /\ pages_from_docs' = <<>>
    /\ calls' = <<>>
    /\ pc' = "gpfi_loop"
    /\ outcome' = NoOutcome
    /\ UNCHANGED <<doc, globals, caller, frame, ext, history>>

\* line 135: the comprehension calls get_pages on the next item
GpfiNext ==
    /\ pc = "gpfi_loop"
    /\ idx <= Len(items)
    /\ item' = items[idx]
    /\ caller' = "batch"
    /\ calls' = Append(calls, idx)
    /\ body' = NoTree
    /\ todo' = <<>>
    /\ pages' = <<>>
    /\ emitted' = <<>>
    /\ pc' = "gp_parse"
    /\ UNCHANGED <<doc, globals, items, idx, pages_from_docs, ext, outcome,
                   history>>

\* line 137
GpfiReturn ==
    /\ pc = "gpfi_loop"
    /\ idx > Len(items)
    /\ outcome' = [op |-> "get_pages_for_items", kind |-> "return",
                   arg |-> items, value |-> flatten(pages_from_docs)]
    /\ pc' = "idle"
    /\ UNCHANGED <<doc, globals, caller, frame, batch, ext, history>>

InitBatch == \E d \in {ContentItem("item1.xhtml", Markup(<<H1A>>))} : Start(d)

NextBatch ==
    \/ CallGetPagesForItems
    \/ GpfiNext
    \/ GetPagesParse
    \/ GetPagesIter
    \/ GetPagesReturn
    \/ GpfiReturn

SpecBatch == InitBatch /\ [][NextBatch]_vars

(***************************************************************************)
(* Properties.                                                             *)
(***************************************************************************)
\* body, pages and emitted belong to one run of get_pages (the running one
\* or the last one to return)
FrameValid == body # NoTree
\* ... and that run has yielded every element
Complete == FrameValid /\ todo = <<>>
\* the last top-level call was get_pages and it returned
PagesReturned ==
    pc = "idle" /\ outcome.op = "get_pages" /\ outcome.kind = "return"

\* the element behind the k-th record
Source(k) == At(body, emitted[k])

\* document order: p comes strictly before q in a pre-order, depth-first walk
DocBefore(p, q) ==
    \/ Len(p) < Len(q) /\ SubSeq(q, 1, Len(p)) = p
    \/ \E i \in 1..Len(p) :
        /\ i <= Len(q)
        /\ SubSeq(p, 1, i - 1) = SubSeq(q, 1, i - 1)
        /\ p[i] < q[i]

\* the landmark test as the specification words it: both values non-empty
NonEmptyTypeAndId(elem) ==
    Truthy(get(elem, "epub:type")) /\ Truthy(get(elem, "id"))

\* C1: once get_pages has walked the body, an element has a record if and
\* only if it carries a non-empty epub:type and a non-empty id.
C1_RecordIffNonEmptyTypeAndId ==
    Complete =>
        \A p \in Paths(body) :
            (\E k \in 1..Len(emitted) : emitted[k] = p)
                <=> NonEmptyTypeAndId(At(body, p))

\* the label as the specification words it: every candidate is trimmed and
\* taken only when non-empty: text, aria-label, heading, id
TrimmedFallback(elem) ==
    LET text == strip(OrEmpty(elem.text))
        aria == strip(OrEmpty(get(elem, "aria-label")))
        head == get_headers(elem)
    IN  IF text # <<>> THEN text
        ELSE IF aria # <<>> THEN aria
        ELSE IF head # None THEN head
        ELSE get(elem, "id")

\* C2: the label of the record of an element with a non-empty epub:type and
\* a non-empty id is the first of trimmed text, trimmed aria-label, heading
\* text and id that is non-empty after trimming.
C2_LabelIsTrimmedFallback ==
    FrameValid =>
        \A k \in 1..Len(pages) :
            NonEmptyTypeAndId(Source(k))
                => pages[k][3] = TrimmedFallback(Source(k))

\* C3: a landmark whose direct text is non-empty after trimming is labelled
\* with that trimmed text, whatever its aria-label and its headings.
C3_TextWins ==
    FrameValid =>
        \A k \in 1..Len(pages) :
            LET elem == Source(k)
            IN  (elem.text # None /\ strip(elem.text) # <<>>)
                    => pages[k][3] = strip(elem.text)

C3_Witness ==
    /\ PagesReturned
    /\ \E k \in 1..Len(outcome.value) :
        /\ "aria-label" \in DOMAIN Source(k).attrib
        /\ xpath_child(Source(k), "h1") # <<>>
        /\ Source(k).text = <<"\n", "t", " ">>
        /\ outcome.value[k][3] = <<"t">>

\* C4: every record has a non-empty anchor id and a non-empty label.
C4_IdAndLabelNonEmpty ==
    FrameValid =>
        \A k \in 1..Len(pages) : Truthy(pages[k][2]) /\ Truthy(pages[k][3])

\* C5: the records are those of the landmarks of the body, one each, in
\* document order: the elements behind the records come in strictly
\* increasing document order, each is a landmark, while the walk is under
\* way they are exactly the landmarks before the element the walk has
\* reached, and at its end they are all the landmarks of the body.
C5_DocumentOrder ==
    FrameValid =>
        LET landmarks == {p \in Paths(body) : qualifies(At(body, p))}
            behind == {emitted[k] : k \in 1..Len(emitted)}
        IN  /\ Len(pages) = Len(emitted)
            /\ \A k \in 1..Len(pages) :
                /\ pages[k][1] = item.name
                /\ pages[k][2] = get(Source(k), "id")
            /\ \A j, k \in 1..Len(emitted) :
                j < k => DocBefore(emitted[j], emitted[k])
            /\ todo # <<>> =>
                behind = {p \in landmarks : DocBefore(p, Head(todo))}
            /\ todo = <<>> =>
                /\ behind = landmarks
                /\ Len(pages) = Cardinality(landmarks)
            /\ PagesReturned => outcome.value = pages

C5_Witness ==
    /\ PagesReturned
    /\ \E j, k, l \in 1..Len(emitted) :
        /\ j < k /\ k < l
        /\ Len(emitted[k]) = Len(emitted[j]) + 1
        /\ SubSeq(emitted[k], 1, Len(emitted[j])) = emitted[j]
        /\ Len(emitted[l]) = Len(emitted[j])
        /\ outcome.value[j][2] = <<"s">>
        /\ outcome.value[k][2] = <<"n">>
        /\ outcome.value[l][2] = <<"s">>

\* get_pages as a function of the item: the records of the landmarks of its
\* body, the k-th being that of the landmark with k-1 landmarks before it
PagesOf(it) ==
    LET tree == parse_html_string(it.content)
        landmarks == {p \in Paths(tree) : qualifies(At(tree, p))}
        nth(k) == CHOOSE p \in landmarks :
                    Cardinality({q \in landmarks : DocBefore(q, p)}) = k - 1
    IN  [k \in 1..Cardinality(landmarks) |-> PageRecord(it, At(tree, nth(k)))]

\* the records of a list of items, those of the last item last
RECURSIVE PagesOfAll(_)
PagesOfAll(list) ==
    IF list = <<>> THEN <<>>
    ELSE PagesOfAll(SubSeq(list, 1, Len(list) - 1)) \o PagesOf(list[Len(list)])

BatchEnded == pc = "idle" /\ outcome.op = "get_pages_for_items"

\* C6: what get_pages_for_items returns is the records of its items, item
\* after item in the order given, nothing sorted, dropped or merged.
C6_Concatenation ==
    (BatchEnded /\ outcome.kind = "return") =>
        /\ outcome.value = PagesOfAll(outcome.arg)
        /\ outcome.arg = <<>> => outcome.value = <<>>

C6_Witness ==
    /\ BatchEnded /\ outcome.kind = "return"
    /\ Len(outcome.arg) = 2
    /\ outcome.arg[1].name = "item2.xhtml"
    /\ outcome.arg[2].name = "item1.xhtml"
    /\ outcome.arg[1].content = outcome.arg[2].content
    /\ Len(outcome.value) = 4
    /\ outcome.value[1][1] = "item2.xhtml"
    /\ outcome.value[3][1] = "item1.xhtml"
    /\ outcome.value[1][2] = outcome.value[3][2]

\* the items of the list whose body content is unavailable
Failing == {i \in 1..Len(items) : items[i].content = Unavailable}

\* C7: when get_pages fails for an item of the list, the batch ends with
\* that failure and without a value, get_pages having been called once on
\* each item up to the first failing one and on none after it; a batch
\* without a failing item returns.
C7_FailureIsWhole ==
    BatchEnded =>
        /\ outcome.arg = items
        /\ Failing = {} => outcome.kind = "return"
        /\ Failing # {} =>
            /\ outcome.kind = "raise"
            /\ outcome.value = None
            /\ \E n \in Failing :
                /\ \A m \in Failing : n <= m
                /\ calls = [i \in 1..n |-> i]

C7_Witness ==
    /\ BatchEnded /\ outcome.kind = "raise"
    /\ Len(items) = 2
    /\ Failing = {2}
    /\ pages_from_docs # <<>>
    /\ pages_from_docs[1] # <<>>

\* C8: a later get_pages(doc) returns what the first one returned, whatever
\* ran in between, and no step of get_pages changes the state that
\* guess_type keeps.
C8_Deterministic ==
    [][/\ (outcome'.op = "get_pages" /\ outcome'.kind = "return"
              /\ outcome'.arg = doc)
            => (first'.set /\ outcome'.value = first'.value)
       /\ pc \in {"gp_parse", "gp_iter"} => UNCHANGED globals]_vars

C8_Witness ==
    /\ PagesReturned
    /\ outcome.arg = doc
    /\ first.set
    /\ ~first.flag
    /\ mimetype_initialised
    /\ Len(outcome.value) = 3

\* a child of elem that is a heading with non-empty text
SomeHeadingWithText(elem) ==
    \E i \in 1..Len(elem.children) :
        /\ \E n \in 1..Len(HeadingTag) : elem.children[i].tag = HeadingTag[n]
        /\ strip(text_content(elem.children[i])) # <<>>

\* the position of the first child of elem with the heading tag of level n
\* (0 when there is none)
FirstHeading(elem, n) ==
    LET at == {i \in 1..Len(elem.children) :
                  elem.children[i].tag = HeadingTag[n]}
    IN  IF at = {} THEN 0 ELSE CHOOSE i \in at : \A j \in at : i <= j

\* the trimmed flattened text of that child (empty when there is none)
FirstHeadingText(elem, n) ==
    IF FirstHeading(elem, n) = 0 THEN <<>>
    ELSE strip(text_content(elem.children[FirstHeading(elem, n)]))

\* C9, amended: get_headers looks at the first direct child of each level
\* h1..h6 only; it returns the trimmed flattened text of the lowest level
\* whose first heading has non-empty text, and no label exactly when no
\* level's first heading has.
C9_FirstHeadingOfEachLevel ==
    outcome.op = "get_headers" =>
        LET elem == outcome.arg
            good == {n \in 1..Len(HeadingTag) :
                        FirstHeadingText(elem, n) # <<>>}
        IN  /\ outcome.value = None <=> good = {}
            /\ \A n \in good :
                (\A m \in good : n <= m)
                    => outcome.value = FirstHeadingText(elem, n)

C9_Witness ==
    /\ outcome.op = "get_headers"
    /\ outcome.value = None
    /\ SomeHeadingWithText(outcome.arg)
    /\ FirstHeading(outcome.arg, 1) = 1

\* C9: get_headers returns no label exactly when no direct child h1..h6 has
\* non-empty text, and otherwise the trimmed text of such a child.
C9_NoneIffNoHeadingWithText ==
    outcome.op = "get_headers" =>
        /\ outcome.value = None <=> ~SomeHeadingWithText(outcome.arg)
        /\ outcome.value # None =>
            \E i \in 1..Len(outcome.arg.children) :
                outcome.value = strip(text_content(outcome.arg.children[i]))

\* C10: the setup runs once, in the first call of guess_type: the flag is
\* false until then and true ever after, later calls skip the setup, and a
\* lookup is made only with the setup done.
C10_SetupOnce ==
    /\ setups <= 1
    /\ guess_calls = 0 => (~mimetype_initialised /\ setups = 0)
    /\ pc \in {"gt_init", "gt_add", "gt_flag"} =>
        (guess_calls = 1 /\ ~mimetype_initialised)
    /\ (guess_calls >= 1 /\ pc \notin {"gt_test", "gt_init", "gt_add", "gt_flag"})
        => (mimetype_initialised /\ setups = 1)
    /\ guess_calls >= 2 => (mimetype_initialised /\ setups = 1)
    /\ mimetype_initialised =>
        (".xhtml" \in DOMAIN types_map
            /\ types_map[".xhtml"] = "application/xhtml+xml")
    /\ outcome.op = "guess_type" =>
        outcome.value = lookup(add_type(DefaultTypes, "application/xhtml+xml",
                                        ".xhtml"), outcome.arg)

C10_Witness ==
    /\ guess_calls = 2
    /\ pc = "idle"
    /\ outcome.op = "guess_type"
    /\ outcome.arg = "book.xhtml"
    /\ outcome.value[1] = "application/xhtml+xml"
    /\ setups = 1

====
